---- MODULE Spec2Model ----
(***************************************************************************)
(* A model of the FractalMountains WebGL background of heliocast           *)
(* (frontend/src/components/ui/mountainous-shader.tsx): the React host      *)
(* harness (render, effect setup and cleanup, the requestAnimationFrame    *)
(* loop, the window resize listener) and the fbm loop of its fragment      *)
(* shader; and the two requests of ForecastForm                            *)
(* (frontend/src/components/ForecastForm.tsx) with their loading flags and *)
(* their shared error field.                                               *)
(*                                                                         *)
(* One component instance is modelled from its first committed render to   *)
(* after its unmount.  The browser and React are the environment: React    *)
(* re-renders the component, compares the effect's dependency list and     *)
(* flushes the effect; the browser fires pending animation-frame callbacks *)
(* and dispatches resize events; the GL driver decides whether context     *)
(* acquisition, compilation and linking succeed.                           *)
(***************************************************************************)
EXTENDS Integers, Sequences, FiniteSets, TLC

(***************************************************************************)
(* Bounds of the model.                                                    *)
(***************************************************************************)
\* number of times the effect may be set up in one run of the model
MaxSetups == 2
\* requestAnimationFrame handles are 1..MaxHandle; a new handle is one that
\* nothing refers to any more (handles are only ever compared for equality)
MaxHandle == 3
\* the clock (Date.now(), in milliseconds) runs from 0 to MaxClock
MaxClock == 1
\* canvas.clientWidth and canvas.clientHeight range over 1..MaxClient
MaxClient == 2
\* the octave counts fbm is run with go up to MaxOctaves
MaxOctaves == 8
\* the coordinates fbm is run at are 0..MaxCoord
MaxCoord == 2
\* the noise field has NoiseSlots sample points, each with a sample of
\* 0/NoiseMax .. NoiseMax/NoiseMax
NoiseSlots == 3
NoiseMax == 1
\* at most MaxInFlight requests of one kind are in flight at a time
MaxInFlight == 2

(***************************************************************************)
(* Values.                                                                 *)
(***************************************************************************)
\* the null of useState<string | null>(null)
NULL == "null"
ErrNoWebGL == "WebGL not supported in this browser."
ErrCompile == "Shader compile error - check console."
ErrLink == "Program link error - check console."
ErrorMessages == {ErrNoWebGL, ErrCompile, ErrLink}

\* window.devicePixelRatio in quarters: 4 is 1.0, 6 is 1.5, 8 is 2.0
DprUnit == 4
DprValues == {6, 8}

\* octave counts are floats (uniform float u_octaves): modelled in halves,
\* so 10 is 5.0 and 5 is 2.5
OctUnit == 2
\* the props defaults speed = 1, octaves = 5, scale = 2
DefaultProps == [speed |-> 1, octaves |-> 5 * OctUnit, scale |-> 2]
\* the props the parent may pass: the defaults, or another speed, an octave
\* count above the loop bound of the shader and another scale
PropChoices ==
  { DefaultProps, [speed |-> 2, octaves |-> 7 * OctUnit, scale |-> 3] }

\* what the GL driver answers during one setup
SetupOutcomes == {"noctx", "vsfail", "fsfail", "bothfail", "linkfail", "ok"}

\* for (int i = 0; i < 6; i++)
LoopBound == 6
\* float amp = 0.5, in 128ths: six halvings leave an integer
AmpStart == 64

\* the width and height of a canvas element that was never sized
DefaultCanvas == [width |-> 300, height |-> 150]

VARIABLES
  life,          \* "mounted" or "unmounted"
  error,         \* the error state of useState
  dirty,         \* a setError changed the state and no render has seen it yet
  rendered,      \* what the last committed render closed over: props and error
  panel,         \* the last committed render shows the error panel
  effectPending, \* the committed render scheduled the effect, not yet flushed
  cleanup,       \* 0, or the setup whose cleanup function is installed
  frameId,       \* frameId.current: 0 (undefined) or a handle
  pending,       \* the frame callbacks registered with requestAnimationFrame
  listeners,     \* the setups whose resize closure is registered on window
  glCtx,         \* the canvas has a WebGL context
  programs,      \* the setups whose shader program is allocated
  buffers,       \* the setups whose vertex buffer is allocated
  setups,        \* how often the effect was set up (and getContext called)
  client,        \* canvas.clientWidth, canvas.clientHeight
  dpr,           \* window.devicePixelRatio, in quarters
  canvas,        \* canvas.width, canvas.height (the backing store)
  viewport,      \* the GL viewport's width and height (its origin is 0, 0)
  now,           \* Date.now()
  startTime,     \* startTime.current
  uniforms,      \* the uniforms as the last frame pushed them
  frameLog,      \* what the last frame callback did, in order
  sizedBy,       \* the client size and pixel ratio the last resize step read
  lastOp,        \* the handler that ran last
  noiseTab,      \* the noise field: the sample at each sample point
  fbmIn,         \* the coordinate p and the uniforms u_octaves, u_scale of a run of fbm
  fbm,           \* the locals of fbm and where the run stands
  temperature,   \* ForecastForm: the text of the temperature input
  prediction,    \* ForecastForm: null or the data of the last predict response
  forecast,      \* ForecastForm: null or the data of the last forecast response
  loading,       \* ForecastForm: the flag of the predict request
  forecastLoading, \* ForecastForm: the flag of the forecast request
  formError,     \* ForecastForm: the error field
  predictFlying, \* the predict requests in flight: their payloads
  forecastFlying, \* the number of forecast requests in flight
  failedSinceStart, \* history: a request failed after the last request start
  lastFailed     \* history: the kind of the request that failed last

harnessVars ==
  << life, error, dirty, rendered, panel, effectPending, cleanup, frameId,
     pending, listeners, glCtx, programs, buffers, setups, client, dpr,
     canvas, viewport, now, startTime, uniforms, frameLog, sizedBy, lastOp >>

fbmVars == << noiseTab, fbmIn, fbm >>

formVars ==
  << temperature, prediction, forecast, loading, forecastLoading, formError,
     predictFlying, forecastFlying, failedSinceStart, lastFailed >>

vars == << harnessVars, fbmVars, formVars >>

(***************************************************************************)
(* Helpers of the harness.                                                 *)
(***************************************************************************)
\* the client sizes the layout may give the canvas: no two of them have the
\* same width or the same height
Sizes == { [width |-> w, height |-> MaxClient + 1 - w] : w \in 1..MaxClient }

\* const dpr = window.devicePixelRatio || 1
EffectiveDpr(d) == IF d = 0 THEN DprUnit ELSE d

\* (a resize that sizes the backing store in CSS pixels)
BackingSizeCss(c, d) == c

\* canvas.width = canvas.clientWidth * dpr: width is an unsigned long, the
\* assignment drops the fraction of the product
BackingSize(c, d) == (c * EffectiveDpr(d)) \div DprUnit

\* the two assignments of resize
ResizedCanvas(cl, d) ==
  [width |-> BackingSize(cl.width, d), height |-> BackingSize(cl.height, d)]

\* (a resize that sets the viewport before it sizes the canvas)
ResizedViewportBefore(cv, vp) == [width |-> canvas.width, height |-> canvas.height]

\* gl.viewport(0, 0, canvas.width, canvas.height), after the two assignments
ResizedViewport(cv, vp) == cv

\* setError(m): a state the same as the current one schedules no render
SetError(m) ==
  /\ error' = m
  /\ dirty' = (dirty \/ error # m)

\* cancelAnimationFrame(h)
CancelAnimationFrame(pend, h) == { cb \in pend : cb.h # h }

\* the handle the cleanup function cancels: frameId.current
CleanupHandle(fid) == fid

\* (a cleanup that removes another function than the one that was added)
RemoveListenerOther(ls, g) == ls

\* window.removeEventListener("resize", resize) of setup g
RemoveListener(ls, g) == ls \ {g}

\* requestAnimationFrame returns a handle it never returned before: the
\* smallest one that neither a pending callback nor frameId.current holds
FreshHandles(pend, fid) == (1..MaxHandle) \ ({ cb.h : cb \in pend } \cup {fid})
RequestAnimationFrame(pend, fid) ==
  CHOOSE h \in FreshHandles(pend, fid) : \A k \in FreshHandles(pend, fid) : h <= k

\* if (error) return, with the error the setup closed over
RenderReturnsEarly(cb) == cb.err # NULL

\* (a render that does not store the handle of the callback it registers)
StoredHandleStale(h, fid) == fid

\* frameId.current = requestAnimationFrame(render), in render
StoredHandle(h, fid) == h

\* the uniforms render pushes
PushedUniforms(cb) ==
  [ res     |-> << canvas.width, canvas.height >>,
    time    |-> now - startTime,
    speed   |-> cb.props.speed,
    octaves |-> cb.props.octaves,
    scale   |-> cb.props.scale ]

\* (a render that registers the next frame before it draws)
FrameOpsRegisterFirst ==
  << "requestAnimationFrame", "clear", "useProgram", "uniform:iResolution",
     "uniform:iTime", "uniform:u_speed", "uniform:u_octaves",
     "uniform:u_scale", "drawArrays" >>

\* the GL calls of one render that draws, in order
FrameOps ==
  << "clear", "useProgram", "uniform:iResolution", "uniform:iTime",
     "uniform:u_speed", "uniform:u_octaves", "uniform:u_scale",
     "drawArrays", "requestAnimationFrame" >>

\* (a start epoch that every render takes anew from the clock)
StartTimeReset(st, t) == t

\* useRef<number>(Date.now()): the first render's value stays, the argument
\* of a later render is dropped
StartTimeKept(st, t) == st

\* the dependency list [speed, octaves, scale, error] of a render
Deps(p, e) == << p.speed, p.octaves, p.scale, e >>

\* {error && <div>...</div>}
ShowsPanel(e) == e # NULL

\* (a link failure that sets an empty message)
FailureMessageEmptyLink(outcome) ==
  CASE outcome = "noctx" -> ErrNoWebGL
    [] outcome \in {"vsfail", "fsfail", "bothfail"} -> ErrCompile
    [] outcome = "linkfail" -> NULL

\* the message a failed setup sets
FailureMessage(outcome) ==
  CASE outcome = "noctx" -> ErrNoWebGL
    [] outcome \in {"vsfail", "fsfail", "bothfail"} -> ErrCompile
    [] outcome = "linkfail" -> ErrLink

\* the setup reaches gl.createProgram
ReachesLink(outcome) == outcome \in {"linkfail", "ok"}

\* the setup returns after setError and before the listener and the frame
SetupAborts(outcome) == outcome # "ok"

NoUniforms == [res |-> << 0, 0 >>, time |-> 0, speed |-> 0, octaves |-> 0, scale |-> 0]

(***************************************************************************)
(* The state after the first render of the component was committed.        *)
(***************************************************************************)
HarnessInit ==
  /\ life = "mounted"
  /\ error = NULL
  /\ dirty = FALSE
  /\ rendered \in [props : PropChoices, error : {NULL}]
  /\ panel = FALSE
  /\ effectPending = TRUE
  /\ cleanup = 0
  /\ frameId = 0
  /\ pending = {}
  /\ listeners = {}
  /\ glCtx = FALSE
  /\ programs = {}
  /\ buffers = {}
  /\ setups = 0
  /\ client \in Sizes
  /\ dpr \in DprValues
  /\ canvas = DefaultCanvas
  /\ viewport = DefaultCanvas
  /\ now \in 0..MaxClock
  /\ startTime = now
  /\ uniforms = NoUniforms
  /\ frameLog = << >>
  /\ sizedBy = [client |-> [width |-> 0, height |-> 0], dpr |-> 0]
  /\ lastOp = "render"

(***************************************************************************)
(* React renders the component: the parent passes props p (the same or     *)
(* others) or a setError is pending.  The effect is scheduled when the     *)
(* dependency list differs from the one of the previous render.            *)
(***************************************************************************)
Render(p) ==
  /\ life = "mounted"
  /\ ~effectPending
  /\ LET changed == Deps(p, error) # Deps(rendered.props, rendered.error)
     IN /\ changed => setups < MaxSetups
        /\ effectPending' = changed
  /\ rendered' = [props |-> p, error |-> error]
  /\ panel' = ShowsPanel(error)
  /\ startTime' = StartTimeKept(startTime, now)
  /\ dirty' = FALSE
  /\ lastOp' = "render"
  /\ UNCHANGED fbmVars
  /\ UNCHANGED formVars
  /\ UNCHANGED << life, error, cleanup, frameId, pending, listeners, glCtx,
                  programs, buffers, setups, client, dpr, canvas, viewport,
                  now, uniforms, frameLog, sizedBy >>

(***************************************************************************)
(* React flushes the effect: the cleanup of the previous setup, if one is  *)
(* installed, and then the setup, with the answers of the GL driver.       *)
(***************************************************************************)
FlushEffects(outcome) ==
  /\ life = "mounted"
  /\ effectPending
  /\ outcome = "noctx" => ~glCtx
  /\ LET g == setups + 1
         pend0 == IF cleanup = 0 THEN pending
                  ELSE CancelAnimationFrame(pending, CleanupHandle(frameId))
         ls0 == IF cleanup = 0 THEN listeners
                ELSE RemoveListener(listeners, cleanup)
     IN /\ setups' = g
        /\ effectPending' = FALSE
        /\ glCtx' = (glCtx \/ outcome # "noctx")
        /\ programs' = IF ReachesLink(outcome) THEN programs \cup {g}
                       ELSE programs
        /\ IF SetupAborts(outcome)
           THEN /\ SetError(FailureMessage(outcome))
                /\ pending' = pend0
                /\ listeners' = ls0
                /\ cleanup' = 0
                /\ lastOp' = "setupFailed"
                /\ UNCHANGED << buffers, canvas, viewport, sizedBy, frameId >>
           ELSE /\ FreshHandles(pend0, frameId) # {}
                /\ LET h == RequestAnimationFrame(pend0, frameId)
                   IN /\ pending' = pend0 \cup
                           { [h |-> h, gen |-> g, err |-> rendered.error,
                              props |-> rendered.props] }
                      /\ frameId' = h
                /\ buffers' = buffers \cup {g}
                /\ listeners' = ls0 \cup {g}
                /\ canvas' = ResizedCanvas(client, dpr)
                /\ viewport' = ResizedViewport(canvas', viewport)
                /\ sizedBy' = [client |-> client, dpr |-> dpr]
                /\ cleanup' = g
                /\ lastOp' = "setup"
                /\ UNCHANGED << error, dirty >>
  /\ UNCHANGED fbmVars
  /\ UNCHANGED formVars
  /\ UNCHANGED << life, rendered, panel, client, dpr, now, startTime,
                  uniforms, frameLog >>

(***************************************************************************)
(* The browser runs a pending frame callback: render of the setup that     *)
(* registered it, with the props and the error that setup closed over.     *)
(***************************************************************************)
Frame(cb) ==
  /\ cb \in pending
  /\ IF RenderReturnsEarly(cb)
     THEN /\ pending' = pending \ {cb}
          /\ frameLog' = << >>
          /\ UNCHANGED << uniforms, frameId >>
     ELSE /\ uniforms' = PushedUniforms(cb)
          /\ frameLog' = FrameOps
          /\ FreshHandles(pending \ {cb}, frameId) # {}
          /\ LET h == RequestAnimationFrame(pending \ {cb}, frameId)
             IN /\ pending' = (pending \ {cb}) \cup { [cb EXCEPT !.h = h] }
                /\ frameId' = StoredHandle(h, frameId)
  /\ lastOp' = "frame"
  /\ UNCHANGED fbmVars
  /\ UNCHANGED formVars
  /\ UNCHANGED << life, error, dirty, rendered, panel, effectPending, cleanup,
                  listeners, glCtx, programs, buffers, setups, client, dpr,
                  canvas, viewport, now, startTime, sizedBy >>

(***************************************************************************)
(* The window is resized to client size cl and pixel ratio d, and the      *)
(* browser dispatches the resize event to the registered listeners.        *)
(***************************************************************************)
WindowResize(cl, d) ==
  /\ << cl, d >> # << client, dpr >>
  /\ client' = cl
  /\ dpr' = d
  /\ IF listeners = {}
     THEN /\ lastOp' = "resizeUnheard"
          /\ UNCHANGED << canvas, viewport, sizedBy >>
     ELSE /\ canvas' = ResizedCanvas(cl, d)
          /\ viewport' = ResizedViewport(canvas', viewport)
          /\ sizedBy' = [client |-> cl, dpr |-> d]
          /\ lastOp' = "resize"
  /\ UNCHANGED fbmVars
  /\ UNCHANGED formVars
  /\ UNCHANGED << life, error, dirty, rendered, panel, effectPending, cleanup,
                  frameId, pending, listeners, glCtx, programs, buffers,
                  setups, now, startTime, uniforms, frameLog >>

(***************************************************************************)
(* Time passes.                                                            *)
(***************************************************************************)
Tick ==
  /\ now < MaxClock
  /\ now' = now + 1
  /\ UNCHANGED fbmVars
  /\ UNCHANGED formVars
  /\ UNCHANGED << life, error, dirty, rendered, panel, effectPending, cleanup,
                  frameId, pending, listeners, glCtx, programs, buffers,
                  setups, client, dpr, canvas, viewport, startTime, uniforms,
                  frameLog, sizedBy, lastOp >>

(***************************************************************************)
(* React unmounts the component: the installed cleanup function runs.      *)
(* React flushes a scheduled effect before it processes the unmount.       *)
(***************************************************************************)
Unmount ==
  /\ life = "mounted"
  /\ ~effectPending
  /\ life' = "unmounted"
  /\ IF cleanup = 0
     THEN UNCHANGED << pending, listeners >>
     ELSE /\ pending' = CancelAnimationFrame(pending, CleanupHandle(frameId))
          /\ listeners' = RemoveListener(listeners, cleanup)
  /\ cleanup' = 0
  /\ lastOp' = "unmount"
  /\ UNCHANGED fbmVars
  /\ UNCHANGED formVars
  /\ UNCHANGED << error, dirty, rendered, panel, effectPending, frameId,
                  glCtx, programs, buffers, setups, client, dpr, canvas,
                  viewport, now, startTime, uniforms, frameLog, sizedBy >>

(***************************************************************************)
(* ForecastForm: the predict and the forecast request.                     *)
(***************************************************************************)
ErrPredict == "Failed to get prediction. Please check your inputs and try again."
ErrForecast == "Failed to get forecast. Please try again."

\* the texts the user may give the temperature input
TemperatureTexts == {"28", "30"}

\* parseFloat(temperature)
ParseFloat(text) == IF text = "28" THEN 28 ELSE 30

\* the data of a predict response: the server echoes the inputs
PredictionData(payload) == [inputs |-> payload]
ForecastData == "forecast"

\* (a submit button without disabled={loading})
PredictNeverDisabled == FALSE

\* disabled={loading} on the submit button of the form
PredictDisabled == loading

\* disabled={forecastLoading} on the forecast button
ForecastDisabled == forecastLoading

\* (a request that clears the error when it succeeds)
ErrorClearedOnSuccess(e) == NULL

\* the error field after a request succeeded: no setError on that path
ErrorAfterSuccess(e) == e

\* a sequence without its k-th element
Without(seq, k) == [j \in 1..(Len(seq) - 1) |-> IF j < k THEN seq[j] ELSE seq[j + 1]]

\* the useState defaults of ForecastForm, no request in flight
FormInit ==
  /\ temperature = "28"
  /\ prediction = NULL
  /\ forecast = NULL
  /\ loading = FALSE
  /\ forecastLoading = FALSE
  /\ formError = NULL
  /\ predictFlying = << >>
  /\ forecastFlying = 0
  /\ failedSinceStart = FALSE
  /\ lastFailed = "none"

\* onChange of the temperature input: setTemperature(e.target.value)
EditTemperature(text) ==
  /\ text # temperature
  /\ temperature' = text
  /\ UNCHANGED << prediction, forecast, loading, forecastLoading, formError,
                  predictFlying, forecastFlying, failedSinceStart, lastFailed >>
  /\ UNCHANGED << harnessVars, fbmVars >>

\* handlePredict up to the await: the form is submitted
SubmitPredict ==
  /\ ~PredictDisabled
  /\ Len(predictFlying) < MaxInFlight
  /\ loading' = TRUE
  /\ formError' = NULL
  /\ predictFlying' = Append(predictFlying, ParseFloat(temperature))
  /\ failedSinceStart' = FALSE
  /\ UNCHANGED << temperature, prediction, forecast, forecastLoading,
                  forecastFlying, lastFailed >>
  /\ UNCHANGED << harnessVars, fbmVars >>

\* handlePredict after the await, the request k resolved: try, then finally
PredictSucceeds(k) ==
  /\ k \in 1..Len(predictFlying)
  /\ prediction' = PredictionData(predictFlying[k])
  /\ formError' = ErrorAfterSuccess(formError)
  /\ loading' = FALSE
  /\ predictFlying' = Without(predictFlying, k)
  /\ UNCHANGED << temperature, forecast, forecastLoading, forecastFlying,
                  failedSinceStart, lastFailed >>
  /\ UNCHANGED << harnessVars, fbmVars >>

\* handlePredict after the await, the request k rejected: catch, then finally
PredictFails(k) ==
  /\ k \in 1..Len(predictFlying)
  /\ formError' = ErrPredict
  /\ loading' = FALSE
  /\ predictFlying' = Without(predictFlying, k)
  /\ failedSinceStart' = TRUE
  /\ lastFailed' = "predict"
  /\ UNCHANGED << temperature, prediction, forecast, forecastLoading,
                  forecastFlying >>
  /\ UNCHANGED << harnessVars, fbmVars >>

\* handleForecast up to the await: the forecast button is clicked
ClickForecast ==
  /\ ~ForecastDisabled
  /\ forecastFlying < MaxInFlight
  /\ forecastLoading' = TRUE
  /\ formError' = NULL
  /\ forecastFlying' = forecastFlying + 1
  /\ failedSinceStart' = FALSE
  /\ UNCHANGED << temperature, prediction, forecast, loading, predictFlying,
                  lastFailed >>
  /\ UNCHANGED << harnessVars, fbmVars >>

\* handleForecast after the await, the request resolved: try, then finally
ForecastSucceeds ==
  /\ forecastFlying > 0
  /\ forecast' = ForecastData
  /\ formError' = ErrorAfterSuccess(formError)
  /\ forecastLoading' = FALSE
  /\ forecastFlying' = forecastFlying - 1
  /\ UNCHANGED << temperature, prediction, loading, predictFlying,
                  failedSinceStart, lastFailed >>
  /\ UNCHANGED << harnessVars, fbmVars >>

\* handleForecast after the await, the request rejected: catch, then finally
ForecastFails ==
  /\ forecastFlying > 0
  /\ formError' = ErrForecast
  /\ forecastLoading' = FALSE
  /\ forecastFlying' = forecastFlying - 1
  /\ failedSinceStart' = TRUE
  /\ lastFailed' = "forecast"
  /\ UNCHANGED << temperature, prediction, forecast, loading, predictFlying >>
  /\ UNCHANGED << harnessVars, fbmVars >>

FormNext ==
  \/ \E text \in TemperatureTexts : EditTemperature(text)
  \/ SubmitPredict
  \/ \E k \in 1..MaxInFlight : PredictSucceeds(k)
  \/ \E k \in 1..MaxInFlight : PredictFails(k)
  \/ ClickForecast
  \/ ForecastSucceeds
  \/ ForecastFails

(***************************************************************************)
(* The fragment shader's fbm, one iteration of its loop per step.          *)
(***************************************************************************)
OctaveValues == (0 - OctUnit) .. (MaxOctaves * OctUnit)
FbmScales == { c.scale : c \in PropChoices }
FbmInputs == [p : 0..MaxCoord, octaves : OctaveValues, scale : FbmScales]
NoiseTables == [0..(NoiseSlots - 1) -> 0..NoiseMax]

\* noise(x): a sample that depends on nothing but the field and x
noise(x) == noiseTab[x % NoiseSlots]

\* (a loop bounded by the largest octave count instead of 6)
LoopContinuesToMax(i) == i < MaxOctaves

\* i < 6, the condition of the for loop
LoopContinues(i) == i < LoopBound

\* (a break that compares with > instead of >=)
BreaksAtGreater(i, octaves) == i * OctUnit > octaves

\* if (float(i) >= u_octaves) break
BreaksAt(i, octaves) == i * OctUnit >= octaves

\* (an fbm whose first layer has amplitude 1.0)
FbmEntryFullAmp(in) ==
  [pc |-> "loop", i |-> 0, v |-> 0, amp |-> 2 * AmpStart, freq |-> in.scale,
   layers |-> 0, exit |-> "none"]

\* float v = 0.0; float amp = 0.5; float freq = u_scale; int i = 0
FbmEntry(in) ==
  [pc |-> "loop", i |-> 0, v |-> 0, amp |-> AmpStart, freq |-> in.scale,
   layers |-> 0, exit |-> "none"]

\* (a loop body that assigns the layer to v instead of adding it)
FbmBodyAssigns(f, in) ==
  [f EXCEPT !.v = f.amp * noise(in.p * f.freq),
            !.freq = f.freq * 2,
            !.amp = f.amp \div 2,
            !.layers = f.layers + 1,
            !.i = f.i + 1]

\* the body of the loop: v += amp * noise(p * freq); freq *= 2.0; amp *= 0.5
FbmBody(f, in) ==
  [f EXCEPT !.v = f.v + f.amp * noise(in.p * f.freq),
            !.freq = f.freq * 2,
            !.amp = f.amp \div 2,
            !.layers = f.layers + 1,
            !.i = f.i + 1]

FbmIdle ==
  [pc |-> "idle", i |-> 0, v |-> 0, amp |-> 0, freq |-> 0, layers |-> 0,
   exit |-> "none"]

\* the harness while fbm alone is looked at: the defaults, nothing set up yet
HarnessAtRest ==
  /\ HarnessInit
  /\ rendered.props = DefaultProps
  /\ client.width = 1
  /\ dpr = DprUnit * 2
  /\ now = 0

FbmInit ==
  /\ HarnessAtRest
  /\ FormInit
  /\ noiseTab \in NoiseTables
  /\ fbmIn \in FbmInputs
  /\ fbm = FbmIdle

\* main calls fbm(uv * 1.5)
FbmCall ==
  /\ fbm.pc = "idle"
  /\ fbm' = FbmEntry(fbmIn)
  /\ UNCHANGED << noiseTab, fbmIn >>
  /\ UNCHANGED harnessVars
  /\ UNCHANGED formVars

\* one test of the loop condition and, if it holds, of the break, then the body
FbmIterate ==
  /\ fbm.pc = "loop"
  /\ fbm' = IF ~LoopContinues(fbm.i)
              THEN [fbm EXCEPT !.pc = "done", !.exit = "bound"]
            ELSE IF BreaksAt(fbm.i, fbmIn.octaves)
              THEN [fbm EXCEPT !.pc = "done", !.exit = "break"]
            ELSE FbmBody(fbm, fbmIn)
  /\ UNCHANGED << noiseTab, fbmIn >>
  /\ UNCHANGED harnessVars
  /\ UNCHANGED formVars

FbmNext == FbmCall \/ FbmIterate

FbmSpec == FbmInit /\ [][FbmNext]_vars

\* The GPU runs a shader invocation on: it does not stop in the middle.
FbmFairSpec == FbmSpec /\ WF_vars(FbmNext)

\* fbm from a state f of its loop to its return, as one evaluation
RECURSIVE FbmRun(_, _)
FbmRun(f, in) ==
  IF ~LoopContinues(f.i) THEN [f EXCEPT !.pc = "done", !.exit = "bound"]
  ELSE IF BreaksAt(f.i, in.octaves) THEN [f EXCEPT !.pc = "done", !.exit = "break"]
  ELSE FbmRun(FbmBody(f, in), in)

\* float h = fbm(p) with the uniforms of in
FbmResult(in) == FbmRun(FbmEntry(in), in)

(***************************************************************************)
(* The harness: fbm is not looked at.                                      *)
(***************************************************************************)
\* fbm while it is not looked at
FbmAtRest ==
  /\ noiseTab = [x \in 0..(NoiseSlots - 1) |-> 0]
  /\ fbmIn = [p |-> 0, octaves |-> DefaultProps.octaves, scale |-> DefaultProps.scale]
  /\ fbm = FbmIdle

Init ==
  /\ HarnessInit
  /\ FbmAtRest
  /\ FormInit

Next ==
  \/ \E p \in PropChoices : Render(p)
  \/ \E outcome \in SetupOutcomes : FlushEffects(outcome)
  \/ \E cb \in pending : Frame(cb)
  \/ \E cl \in Sizes, d \in DprValues : WindowResize(cl, d)
  \/ Tick
  \/ Unmount

Spec == Init /\ [][Next]_vars

\* The browser runs every pending frame callback at the next display refresh.
FrameStep == \E cb \in pending : Frame(cb)

FairSpec == Spec /\ WF_vars(FrameStep)

(***************************************************************************)
(* ForecastForm alone: the background and fbm are not looked at.           *)
(***************************************************************************)
FormAloneInit ==
  /\ HarnessAtRest
  /\ FbmAtRest
  /\ FormInit

FormSpec == FormAloneInit /\ [][FormNext]_vars

(***************************************************************************)
(* The claims.                                                             *)
(***************************************************************************)

\* C1: once the error state is set, no frame callback is registered with
\* requestAnimationFrame any more, whatever happens later.
C1_NoRegistrationAfterError ==
  [][error # NULL => pending' \subseteq pending]_vars

\* C2: after the unmount no frame callback of the instance is pending or
\* runs, and no resize listener of the instance is registered on window.
C2_NothingLeftAfterUnmount ==
  life = "unmounted" =>
    /\ pending = {}
    /\ listeners = {}
    /\ lastOp \notin {"frame", "resize"}

\* C2 witness: an instance that drew frames, error-free, and was unmounted.
C2_Witness ==
  /\ life = "unmounted"
  /\ error = NULL
  /\ uniforms # NoUniforms
  /\ pending = {}
  /\ listeners = {}

\* C3: after the first failed setup the instance acquires no context and
\* compiles and links nothing any more: the effect is not set up again.
C3_NoRetryAfterFailure ==
  [][error # NULL => (setups' = setups /\ programs' = programs)]_vars

\* C4: the error state is absorbing: a non-null error never becomes null
\* again, and every render after it was set shows the error panel.
C4_ErrorAbsorbing ==
  [][error # NULL => (error' # NULL /\ (lastOp' = "render" => panel'))]_vars

\* C4 witness: a render that shows the panel after a setup failed.
C4_Witness ==
  /\ lastOp = "render"
  /\ error \in ErrorMessages
  /\ panel

\* C5: no shader program and no vertex buffer of a setup that was torn down
\* (by the unmount or by the cleanup before a new setup) stays allocated.
C5_ResourcesFreedOnTeardown ==
  { g \in programs \cap buffers : g # cleanup } = {}

\* C6 as stated: after every resize step the backing store is exactly the
\* client size times the device pixel ratio, and the viewport matches it.
C6_ExactProduct ==
  lastOp \in {"setup", "resize"} =>
    /\ canvas.width * DprUnit = client.width * dpr
    /\ canvas.height * DprUnit = client.height * dpr
    /\ viewport = canvas

\* C6 as amended: after every resize step the backing store is the client
\* size times the device pixel ratio with the fraction dropped (the product
\* itself when it is an integer), and the viewport matches it.
C6_ProductTruncated ==
  lastOp \in {"setup", "resize"} =>
    /\ canvas.width * DprUnit <= client.width * dpr
    /\ client.width * dpr < (canvas.width + 1) * DprUnit
    /\ canvas.height * DprUnit <= client.height * dpr
    /\ client.height * dpr < (canvas.height + 1) * DprUnit
    /\ viewport = canvas

\* C6 witness: a resize event with a pixel ratio of 1.5 whose product with
\* the client width has a fraction, and whose product with the height has none.
C6_Witness ==
  /\ lastOp = "resize"
  /\ dpr = 6
  /\ (client.width * dpr) % DprUnit # 0
  /\ (client.height * dpr) % DprUnit = 0
  /\ canvas.height * DprUnit = client.height * dpr

\* C7: the resolution a frame pushes is the width and height one single
\* resize step wrote, and it is the viewport its draw runs with.
C7_FrameSeesOneResize ==
  (lastOp = "frame" /\ frameLog # << >>) =>
    /\ uniforms.res = << viewport.width, viewport.height >>
    /\ \E cl \in Sizes, d \in DprValues :
         /\ sizedBy = [client |-> cl, dpr |-> d]
         /\ uniforms.res[1] * DprUnit <= cl.width * d
         /\ cl.width * d < (uniforms.res[1] + 1) * DprUnit
         /\ uniforms.res[2] * DprUnit <= cl.height * d
         /\ cl.height * d < (uniforms.res[2] + 1) * DprUnit

\* C7 witness: a later frame of the first setup that drew at the size a
\* resize step with pixel ratio 2 wrote (width 2, height 4).
C7_Witness ==
  /\ lastOp = "frame"
  /\ frameLog # << >>
  /\ setups = 1
  /\ uniforms.time > 0
  /\ uniforms.res = << 2, 4 >>
  /\ sizedBy.dpr = 8

\* where op stands in the log of a frame (0: nowhere)
Position(log, op) ==
  IF \E k \in 1..Len(log) : log[k] = op
  THEN CHOOSE k \in 1..Len(log) : log[k] = op
  ELSE 0
Occurrences(log, op) == Cardinality({ k \in 1..Len(log) : log[k] = op })
UniformOps ==
  { "uniform:iResolution", "uniform:iTime", "uniform:u_speed",
    "uniform:u_octaves", "uniform:u_scale" }

\* a frame callback just ran on a mounted instance without error
FrameRanErrorFree == lastOp = "frame" /\ life = "mounted" /\ error = NULL

C8_FrameProtocol ==
  FrameRanErrorFree =>
    /\ \A u \in UniformOps :
         /\ Occurrences(frameLog, u) = 1
         /\ Position(frameLog, u) < Position(frameLog, "drawArrays")
    /\ Occurrences(frameLog, "drawArrays") = 1
    /\ Occurrences(frameLog, "requestAnimationFrame") = 1
    /\ Position(frameLog, "drawArrays")
         < Position(frameLog, "requestAnimationFrame")
    /\ Cardinality(pending) = 1
    /\ \A cb \in pending : cb.h = frameId /\ cb.err = NULL

\* the loop of an installed setup runs on a mounted instance without error
LoopRunning == life = "mounted" /\ error = NULL /\ cleanup # 0

\* C8: a frame callback on a mounted, error-free instance pushes the
\* uniforms, then draws once, then registers exactly one next callback; and
\* if the instance stays mounted and error-free, frames run again and again.
C8_FramesContinue ==
  /\ []C8_FrameProtocol
  /\ (<>[]LoopRunning => []<><<FrameStep>>_vars)

\* C8 witness: a later frame of a running loop, the next one pending.
C8_Witness ==
  /\ FrameRanErrorFree
  /\ uniforms.time > 0
  /\ Cardinality(pending) = 1
  /\ frameLog = FrameOps

\* n whole octaves
Whole(n) == n * OctUnit

RECURSIVE Pow2(_)
Pow2(k) == IF k = 0 THEN 1 ELSE 2 * Pow2(k - 1)

\* the sum of the first n layers at coordinate p with base frequency scale:
\* layer k has amplitude 0.5 / 2^k and frequency scale * 2^k
RECURSIVE LayerSum(_, _, _)
LayerSum(p, scale, n) ==
  IF n = 0 THEN 0
  ELSE LayerSum(p, scale, n - 1)
         + (AmpStart \div Pow2(n - 1)) * noise(p * scale * Pow2(n - 1))

\* C10: with an octave count above 6, fbm consumes exactly 6 layers and
\* returns what it returns for 6 octaves (the sum of the six layers), and
\* the harness is in no error state.
C10_TruncatedAtSix ==
  (fbm.pc = "done" /\ fbmIn.octaves >= Whole(6)) =>
    /\ fbm.layers = 6
    /\ fbm.v = LayerSum(fbmIn.p, fbmIn.scale, 6)
    /\ error = NULL

\* C10 witness: a run with 7 octaves that consumed 6 layers and left the
\* loop at its bound, with a result above 0.
C10_Witness ==
  /\ fbm.pc = "done"
  /\ fbmIn.octaves = Whole(7)
  /\ fbm.layers = 6
  /\ fbm.exit = "bound"
  /\ fbm.v > 0

\* C11: with an octave count of 0 or below, fbm terminates, consumes no
\* noise layer and returns 0.
C11_NoLayerAtZeroOrBelow ==
  /\ [](fbmIn.octaves <= 0 => (fbm.layers = 0 /\ fbm.v = 0 /\ fbm.i = 0))
  /\ <>(fbmIn.octaves <= 0 => (fbm.pc = "done" /\ fbm.exit = "break"))

\* C11 witness: a finished run with -1 octaves over a noise field whose
\* first layer would have added something.
C11_Witness ==
  /\ fbm.pc = "done"
  /\ fbmIn.octaves = 0 - OctUnit
  /\ noise(fbmIn.p * fbmIn.scale) > 0
  /\ fbm.layers = 0
  /\ fbm.v = 0

\* C12: at one coordinate and scale (the noise samples are never negative),
\* the result of fbm with m octaves is at most the result with n octaves,
\* for all m <= n.
C12_MonotoneInOctaves ==
  fbm.pc = "done" =>
    /\ \A x \in 0..(NoiseSlots - 1) : noiseTab[x] >= 0
    /\ \A m \in OctaveValues :
         m <= fbmIn.octaves =>
           FbmResult([fbmIn EXCEPT !.octaves = m]).v <= fbm.v

\* C12 witness: a run with 3 octaves whose result is above the one with 1
\* octave, which is above 0.
C12_Witness ==
  /\ fbm.pc = "done"
  /\ fbmIn.octaves = Whole(3)
  /\ FbmResult([fbmIn EXCEPT !.octaves = Whole(1)]).v > 0
  /\ FbmResult([fbmIn EXCEPT !.octaves = Whole(1)]).v < fbm.v

\* v and amp are in units of 1 / AmpOne of a noise sample of 1 / NoiseMax
AmpOne == 2 * AmpStart
\* the octave count of the run is a whole number
WholeOctaves == fbmIn.octaves % OctUnit = 0
\* that whole number (also when negative)
OctaveCount ==
  IF fbmIn.octaves >= 0 THEN fbmIn.octaves \div OctUnit
  ELSE 0 - ((0 - fbmIn.octaves) \div OctUnit)

\* layer k is sampled at frequency scale * 2^k with amplitude 0.5 / 2^k
LayerGeometry ==
  fbm.pc = "loop" =>
    /\ fbm.freq = fbmIn.scale * Pow2(fbm.i)
    /\ fbm.amp * Pow2(fbm.i) = AmpStart
    /\ fbm.v = LayerSum(fbmIn.p, fbmIn.scale, fbm.i)

\* C13 as stated: layer k has frequency scale * 2^k and amplitude
\* 0.5 / 2^k, and for every octave count n (here: every whole one) the
\* result lies in [0, 1 - 2^-n].
C13_RangeForEveryCount ==
  /\ LayerGeometry
  /\ (fbm.pc = "done" /\ WholeOctaves) =>
       /\ 0 <= fbm.v
       /\ IF OctaveCount >= 0
          THEN fbm.v * Pow2(OctaveCount)
                 <= (Pow2(OctaveCount) - 1) * AmpOne * NoiseMax
          ELSE fbm.v <= (1 - Pow2(0 - OctaveCount)) * AmpOne * NoiseMax

\* the octave count rounded up to a whole number, for a count >= 0
CeilCount == (fbmIn.octaves + OctUnit - 1) \div OctUnit

\* C13 as amended: layer k has frequency scale * 2^k and amplitude
\* 0.5 / 2^k; for an octave count n >= 0 the result lies in
\* [0, 1 - 2^-c] with c the count rounded up to a whole number (c = n for a
\* whole count); for a count below 0 the result is 0.
C13_RangeForCountsFromZero ==
  /\ LayerGeometry
  /\ fbm.pc = "done" =>
       /\ 0 <= fbm.v
       /\ fbm.v < AmpOne * NoiseMax
       /\ IF fbmIn.octaves >= 0
          THEN fbm.v * Pow2(CeilCount) <= (Pow2(CeilCount) - 1) * AmpOne * NoiseMax
          ELSE fbm.v = 0

\* C13 witness: a run with 2 octaves over samples of 1 that returns
\* 0.75 = 1 - 2^-2, the top of its range.
C13_Witness ==
  /\ fbm.pc = "done"
  /\ fbmIn.octaves = Whole(2)
  /\ fbm.v * 4 = 3 * AmpOne * NoiseMax

\* C14: the start epoch never changes after the first render; a frame
\* pushes the clock minus the start epoch (in thousandths of a second); with
\* a clock that never runs backwards, the time pushed never decreases.
C14_EpochFixedTimeMonotone ==
  [][ /\ startTime' = startTime
      /\ now' >= now
      /\ uniforms'.time >= uniforms.time
      /\ (FrameStep /\ frameLog' # << >>) => uniforms'.time = now' - startTime'
    ]_vars

\* C14 witness: a frame of the second setup, whose first render was at
\* clock 0, pushed the time 1.
C14_Witness ==
  /\ lastOp = "frame"
  /\ frameLog # << >>
  /\ setups = 2
  /\ startTime = 0
  /\ uniforms.time = 1
  /\ \A cb \in pending : cb.gen = 2

\* C15: every frame pushes the speed, octaves and scale of the component's
\* current props, so that no frame after a change of one of them is drawn
\* with the previous values.
C15_FramePushesCurrentProps ==
  (lastOp = "frame" /\ frameLog # << >>) =>
    /\ uniforms.speed = rendered.props.speed
    /\ uniforms.octaves = rendered.props.octaves
    /\ uniforms.scale = rendered.props.scale

\* C17: at most one frame callback is pending and at most one resize
\* listener is registered, and a listener is registered only while the
\* cleanup that removes it is installed.
C17_OneCallbackOneListener ==
  /\ Cardinality(pending) <= 1
  /\ Cardinality(listeners) <= 1
  /\ listeners # {} => (cleanup # 0 /\ listeners = {cleanup})
  /\ cleanup = 0 => pending = {}

\* C17 witness: the second setup, after a first one that failed, has its
\* listener registered, its cleanup installed and one callback pending.
C17_Witness ==
  /\ setups = 2
  /\ error # NULL
  /\ listeners = {2}
  /\ cleanup = 2
  /\ Cardinality(pending) = 1

\* no request of either kind is in flight
NoRequestInFlight == Len(predictFlying) = 0 /\ forecastFlying = 0

\* the message the request of a kind sets when it fails
MessageOf(kind) ==
  CASE kind = "predict" -> ErrPredict
    [] kind = "forecast" -> ErrForecast
    [] OTHER -> NULL

\* C18: the one error field is shared by both requests; when no request is
\* in flight it is non-null exactly when a request failed after the most
\* recent request start, and it then is the message of the request that
\* failed last.
C18_SharedErrorField ==
  /\ formError \in {NULL, ErrPredict, ErrForecast}
  /\ (~failedSinceStart /\ formError # NULL) => ~NoRequestInFlight
  /\ NoRequestInFlight =>
       /\ (formError # NULL) <=> failedSinceStart
       /\ formError # NULL => formError = MessageOf(lastFailed)

\* C18 witness: both requests were in flight together, the predict one
\* failed and the forecast one then succeeded: the predict message stays.
C18_Witness ==
  /\ NoRequestInFlight
  /\ formError = ErrPredict
  /\ forecast = ForecastData
  /\ prediction = NULL
  /\ lastFailed = "predict"

\* C19: loading is true exactly while a predict request is in flight and
\* forecastLoading exactly while a forecast request is in flight, and at
\* most one request of each kind is in flight.
C19_FlagsFollowRequests ==
  /\ loading <=> Len(predictFlying) > 0
  /\ forecastLoading <=> forecastFlying > 0
  /\ Len(predictFlying) <= 1
  /\ forecastFlying <= 1

\* C19 witness: a predict request is in flight while a forecast request
\* has completed and a second one is in flight.
C19_Witness ==
  /\ loading
  /\ Len(predictFlying) = 1
  /\ forecast = ForecastData
  /\ forecastLoading
  /\ forecastFlying = 1

====
